---- MODULE Spec2Model ----
(***************************************************************************)
(* Model of the two dashboards of the repository.                          *)
(*                                                                         *)
(*  - src/streamlit_app.py: one run of the script per user interaction     *)
(*    (cargar_datos behind st.cache_data, the two sidebar widgets, the     *)
(*    date unpacking, the filter, the empty check, the KPIs, the           *)
(*    per-inverter traces), followed by a rerun with new widget values.    *)
(*    Specification: Spec.                                                 *)
(*  - src/app_v1.py: simular_datos_pv, statement by statement.             *)
(*    Specification: SpecGen.                                              *)
(*                                                                         *)
(* Numbers.  The code computes in floating point; the model computes in    *)
(* exact fixed point.  Potencia_AC_kW is an integer number of kW,          *)
(* energia_total_kwh is held in hundredths of a kWh (x 0.25 is x 25),      *)
(* hsp is an exact fraction [num, den].  In the generator irradiance is    *)
(* held in tenths of W/m2 and power in 1/10000 kW, so that x 0.4, x 0.15,  *)
(* x 0.3 and x 0.4 are exact.                                              *)
(***************************************************************************)
EXTENDS Integers, Sequences, FiniteSets, TLC

VARIABLES
    \* ---- src/streamlit_app.py ----
    csv,                      \* rows of datos_pv.csv, in file order
    cache,                    \* st.cache_data entry of cargar_datos
    df,                       \* module-level df of the current run
    inversores_seleccionados, \* value of the multiselect
    fechas_seleccionadas,     \* value of the date_input: a tuple of dates
    fecha_inicio, fecha_fin,
    df_filtrado,
    energia_total_kwh, potencia_pico_kw, irradiancia_max, hsp,
    trazas,                   \* the Scatter traces added to fig_ts, by inverter
    aviso,                    \* st.sidebar.error / st.warning shown by this run
    anterior,                 \* KPIs shown by the previous run (history)
    pc,                       \* position in the script
    \* ---- src/app_v1.py ----
    semilla,                  \* state of numpy's global generator at entry
    irradiancia_base, irradiancia_dia2,
    potencia_dia1, potencia_dia2, potencia_dia3,
    salida,                   \* the frame simular_datos_pv returns
    gpc                       \* position in simular_datos_pv

appVars == <<csv, cache, df, inversores_seleccionados, fechas_seleccionadas,
             fecha_inicio, fecha_fin, df_filtrado, energia_total_kwh,
             potencia_pico_kw, irradiancia_max, hsp, trazas, aviso, anterior, pc>>
genVars == <<semilla, irradiancia_base, irradiancia_dia2, potencia_dia1,
             potencia_dia2, potencia_dia3, salida, gpc>>
vars == <<appVars, genVars>>

\* A script variable not yet assigned in this run is None, and Some(v) once it
\* holds v; Val reads it.
None == <<>>
Some(v) == <<v>>
Val(o) == o[1]

-----------------------------------------------------------------------------
\* Bounds of the model.
MaxFilas == 2        \* rows of the csv file
MaxSemilla == 15     \* seeds of the random generator

-----------------------------------------------------------------------------
(***************************************************************************)
(* src/streamlit_app.py                                                    *)
(***************************************************************************)

\* pandas' NaT (a Timestamp cell that is no date) and the NaN that min()/max()
\* of an empty column return.  Instants and dates are >= 0.
NaT == -1
NaN == -2

\* The Timestamp cells a row of the file may hold.  The last one is the bad
\* date quoted in the comment of cargar_datos.
CeldasTimestamp ==
    {"2025-07-01 00:00:00", "2025-07-01 00:15:00", "2025-07-02 00:00:00",
     "2loc 08:45:00"}
Inversores == {"Inversor-A", "Inversor-B"}
\* (Potencia_AC_kW, Irradiancia_GHI_W_m2) readings a row may hold.
Lecturas == {<<10, 400>>, <<20, 800>>}

FilasCsv ==
    {[Timestamp |-> t, Nombre_Inversor |-> i,
      Potencia_AC_kW |-> l[1], Irradiancia_GHI_W_m2 |-> l[2]] :
        t \in CeldasTimestamp, i \in Inversores, l \in Lecturas}

\* pd.read_csv: the files the model reads, rows in file order.
Archivos == UNION {[1..n -> FilasCsv] : n \in 0..MaxFilas}

\* pd.to_datetime(..., errors="coerce") of one cell: quarter hours since
\* 2025-07-01 00:00:00, or NaT for a cell that is no date.
ToDatetime(celda) ==
    CASE celda = "2025-07-01 00:00:00" -> 0
      [] celda = "2025-07-01 00:15:00" -> 1
      [] celda = "2025-07-02 00:00:00" -> 96
      [] OTHER -> NaT

\* df["Timestamp"] = pd.to_datetime(df["Timestamp"], errors="coerce")
Coerce(t) ==
    [i \in 1..Len(t) |-> [t[i] EXCEPT !.Timestamp = ToDatetime(@)]]

\* Faulty variant of Dropna: the NaT rows are kept.
DropnaKeepsAll(t) == t

\* df.dropna(subset=["Timestamp"])
Dropna(t) == SelectSeq(t, LAMBDA r : r.Timestamp # NaT)

\* Series.dt.date of one instant: days since 2025-07-01.
Date(ts) == ts \div 96

\* df["Fecha"] = df["Timestamp"].dt.date
ConFecha(t) ==
    [i \in 1..Len(t) |->
        [Timestamp |-> t[i].Timestamp,
         Nombre_Inversor |-> t[i].Nombre_Inversor,
         Potencia_AC_kW |-> t[i].Potencia_AC_kW,
         Irradiancia_GHI_W_m2 |-> t[i].Irradiancia_GHI_W_m2,
         Fecha |-> Date(t[i].Timestamp)]]

\* cargar_datos(ruta_csv), the body that runs on a cache miss.
cargar_datos(archivo) == ConFecha(Dropna(Coerce(archivo)))

\* Series.unique() / .min() / .max() of a column.
Columna(t, c) == {t[i][c] : i \in 1..Len(t)}
Min(S) == IF S = {} THEN NaN ELSE CHOOSE x \in S : \A y \in S : x <= y
Max(S) == IF S = {} THEN NaN ELSE CHOOSE x \in S : \A y \in S : y <= x

lista_inversores == Columna(df, "Nombre_Inversor")
min_fecha == Min(Columna(df, "Fecha"))
max_fecha == Max(Columna(df, "Fecha"))

\* The values st.sidebar.date_input can return for given limits: a tuple of
\* zero, one or two dates between min_value and max_value.  Over an empty table
\* the limits are NaN.
Seleccionables(lo, hi) == IF lo = NaN THEN {NaN} ELSE lo..hi
RangosDeFechas(lo, hi) ==
    UNION {[1..n -> Seleccionables(lo, hi)] : n \in 0..2}

\* Comparison of two dates as pandas does it: False when either is NaN.
Ge(a, b) == a # NaN /\ b # NaN /\ a >= b
Le(a, b) == a # NaN /\ b # NaN /\ a <= b

\* Faulty variant of Coincide: an empty inverter selection selects every inverter.
CoincideEmptyIsAll(r, inversores, inicio, fin) ==
    /\ (inversores = {} \/ r.Nombre_Inversor \in inversores)
    /\ Ge(r.Fecha, inicio)
    /\ Le(r.Fecha, fin)

\* The row mask of the filter.
Coincide(r, inversores, inicio, fin) ==
    /\ r.Nombre_Inversor \in inversores
    /\ Ge(r.Fecha, inicio)
    /\ Le(r.Fecha, fin)

\* Faulty variant of Filtrar: the first matching row is lost (a positional slice).
FiltrarSkipsFirst(t, inversores, inicio, fin) ==
    LET m == SelectSeq(t, LAMBDA r : Coincide(r, inversores, inicio, fin))
    IN  IF m = <<>> THEN m ELSE Tail(m)

\* df[(isin) & (>= fecha_inicio) & (<= fecha_fin)]
Filtrar(t, inversores, inicio, fin) ==
    SelectSeq(t, LAMBDA r : Coincide(r, inversores, inicio, fin))

\* Faulty variant of Empty: the empty check never fires.
EmptyNever(t) == FALSE

\* DataFrame.empty
Empty(t) == t = <<>>

RECURSIVE Sum(_)
\* Series.sum() of Potencia_AC_kW
Sum(t) == IF t = <<>> THEN 0 ELSE Head(t).Potencia_AC_kW + Sum(Tail(t))

\* Faulty variant of EnergiaTotal: the energy shown by the previous run is carried
\* over into this one.
EnergiaAcumulada(t) ==
    Sum(t) * 25 + (IF anterior = None THEN 0 ELSE Val(anterior).energia)

\* energia_total_kwh, in hundredths of a kWh: sum() * 0.25
EnergiaTotal(t) == Sum(t) * 25

\* The 50 kWp assumed per inverter.
KwpPorInversor == 50

\* Faulty variant of PotenciaPicoSistema: the number of inverters is ignored.
PotenciaPicoFija(inversores) == KwpPorInversor

\* potencia_pico_sistema_kwp = 50 * len(inversores_seleccionados)
PotenciaPicoSistema(inversores) == KwpPorInversor * Cardinality(inversores)

\* hsp = energia_total_kwh / potencia_pico_sistema_kwp, as an exact fraction
\* (energy is in hundredths, so the denominator carries the 100).
Hsp(energia, kwp) == [num |-> energia, den |-> 100 * kwp]

\* Faulty variant of DfInv: the rows of every inverter go into each trace.
DfInvTodos(t, inversor) == t

\* df_inv = df_filtrado[df_filtrado["Nombre_Inversor"] == inversor]
DfInv(t, inversor) == SelectSeq(t, LAMBDA r : r.Nombre_Inversor = inversor)

\* go.Scatter(x=df_inv["Timestamp"], y=df_inv["Potencia_AC_kW"])
Scatter(t) == [i \in 1..Len(t) |-> <<t[i].Timestamp, t[i].Potencia_AC_kW>>]

\* The user-visible messages of the two early exits.
ErrorFechas == "Selecciona un rango de fechas valido (inicio y fin)."
WarningSinDatos == "No hay datos para los filtros seleccionados."

\* The script variables a run assigns, as they are when the run starts.
Limpio ==
    /\ inversores_seleccionados = {}
    /\ fechas_seleccionadas = None
    /\ fecha_inicio = None /\ fecha_fin = None
    /\ df_filtrado = None
    /\ energia_total_kwh = None /\ potencia_pico_kw = None
    /\ irradiancia_max = None /\ hsp = None
    /\ trazas = None
    /\ aviso = None

\* Lines 33: df = cargar_datos("datos_pv.csv") behind @st.cache_data: the body
\* runs on the first call only, later runs get the cached frame.
Cargar ==
    /\ pc = "cargar"
    /\ cache' = IF cache = None THEN Some(cargar_datos(csv)) ELSE cache
    /\ df' = Val(cache')
    /\ pc' = "widgets"
    /\ UNCHANGED <<csv, inversores_seleccionados, fechas_seleccionadas,
                   fecha_inicio, fecha_fin, df_filtrado, energia_total_kwh,
                   potencia_pico_kw, irradiancia_max, hsp, trazas, aviso,
                   anterior>>
    /\ UNCHANGED genVars

\* Lines 40-60: the multiselect returns a subset of lista_inversores, the
\* date_input a tuple of dates within [min_fecha, max_fecha].
Widgets ==
    /\ pc = "widgets"
    /\ df # <<>>
    /\ inversores_seleccionados' \in SUBSET lista_inversores
    /\ \E rango \in RangosDeFechas(min_fecha, max_fecha) :
          fechas_seleccionadas' = Some(rango)
    /\ pc' = "fechas"
    /\ UNCHANGED <<csv, cache, df, fecha_inicio, fecha_fin, df_filtrado,
                   energia_total_kwh, potencia_pico_kw, irradiancia_max, hsp,
                   trazas, aviso, anterior>>
    /\ UNCHANGED genVars

\* Lines 40-60 over an empty table: min_fecha and max_fecha are NaN, which
\* st.sidebar.date_input (not part of the repository) either rejects with an
\* exception or hands back.
WidgetsSinFilas ==
    /\ pc = "widgets"
    /\ df = <<>>
    /\ inversores_seleccionados' \in SUBSET lista_inversores
    /\ \E falla \in BOOLEAN :
          IF falla
          THEN /\ pc' = "excepcion"
               /\ UNCHANGED fechas_seleccionadas
          ELSE /\ pc' = "fechas"
               /\ \E rango \in RangosDeFechas(min_fecha, max_fecha) :
                     fechas_seleccionadas' = Some(rango)
    /\ UNCHANGED <<csv, cache, df, fecha_inicio, fecha_fin, df_filtrado,
                   energia_total_kwh, potencia_pico_kw, irradiancia_max, hsp,
                   trazas, aviso, anterior>>
    /\ UNCHANGED genVars

\* Faulty variant of DesempaquetaBien: a single date is taken as both ends.
DesempaquetaUna(fechas) == Len(fechas) >= 1

\* fecha_inicio, fecha_fin = fechas_seleccionadas succeeds exactly when the
\* tuple holds two dates; otherwise it raises ValueError.
DesempaquetaBien(fechas) == Len(fechas) = 2

\* Lines 63-67: the unpacking in its try block; the handler shows the error
\* and st.stop() ends the run.
Fechas ==
    /\ pc = "fechas"
    /\ IF DesempaquetaBien(Val(fechas_seleccionadas))
       THEN /\ fecha_inicio' = Some(Val(fechas_seleccionadas)[1])
            /\ fecha_fin' = Some(Val(fechas_seleccionadas)[Len(Val(fechas_seleccionadas))])
            /\ pc' = "filtrar"
            /\ UNCHANGED aviso
       ELSE /\ aviso' = Some(ErrorFechas)
            /\ pc' = "stop"
            /\ UNCHANGED <<fecha_inicio, fecha_fin>>
    /\ UNCHANGED <<csv, cache, df, inversores_seleccionados,
                   fechas_seleccionadas, df_filtrado, energia_total_kwh,
                   potencia_pico_kw, irradiancia_max, hsp, trazas, anterior>>
    /\ UNCHANGED genVars

\* Lines 71-75: df_filtrado = df[...]
Filtrado ==
    /\ pc = "filtrar"
    /\ df_filtrado' = Some(Filtrar(df, inversores_seleccionados,
                                   Val(fecha_inicio), Val(fecha_fin)))
    /\ pc' = "vacio"
    /\ UNCHANGED <<csv, cache, df, inversores_seleccionados,
                   fechas_seleccionadas, fecha_inicio, fecha_fin,
                   energia_total_kwh, potencia_pico_kw, irradiancia_max, hsp,
                   trazas, aviso, anterior>>
    /\ UNCHANGED genVars

\* Lines 77-79: if df_filtrado.empty: st.warning(...); st.stop()
Vacio ==
    /\ pc = "vacio"
    /\ IF Empty(Val(df_filtrado))
       THEN /\ aviso' = Some(WarningSinDatos)
            /\ pc' = "stop"
       ELSE /\ pc' = "kpis"
            /\ UNCHANGED aviso
    /\ UNCHANGED <<csv, cache, df, inversores_seleccionados,
                   fechas_seleccionadas, fecha_inicio, fecha_fin, df_filtrado,
                   energia_total_kwh, potencia_pico_kw, irradiancia_max, hsp,
                   trazas, anterior>>
    /\ UNCHANGED genVars

\* Lines 92-101: the four KPIs.  The division raises ZeroDivisionError when
\* potencia_pico_sistema_kwp is 0.
Kpis ==
    /\ pc = "kpis"
    /\ energia_total_kwh' = Some(EnergiaTotal(Val(df_filtrado)))
    /\ potencia_pico_kw' = Some(Max(Columna(Val(df_filtrado), "Potencia_AC_kW")))
    /\ irradiancia_max' =
          Some(Max(Columna(Val(df_filtrado), "Irradiancia_GHI_W_m2")))
    /\ IF PotenciaPicoSistema(inversores_seleccionados) = 0
       THEN /\ pc' = "excepcion"
            /\ UNCHANGED hsp
       ELSE /\ hsp' = Some(Hsp(EnergiaTotal(Val(df_filtrado)),
                               PotenciaPicoSistema(inversores_seleccionados)))
            /\ pc' = "grafico"
    /\ UNCHANGED <<csv, cache, df, inversores_seleccionados,
                   fechas_seleccionadas, fecha_inicio, fecha_fin, df_filtrado,
                   trazas, aviso, anterior>>
    /\ UNCHANGED genVars

\* Lines 119-132: one Scatter trace per inverter of df_filtrado.
Grafico ==
    /\ pc = "grafico"
    /\ trazas' = Some([inversor \in Columna(Val(df_filtrado), "Nombre_Inversor")
                          |-> Scatter(DfInv(Val(df_filtrado), inversor))])
    /\ pc' = "fin"
    /\ UNCHANGED <<csv, cache, df, inversores_seleccionados,
                   fechas_seleccionadas, fecha_inicio, fecha_fin, df_filtrado,
                   energia_total_kwh, potencia_pico_kw, irradiancia_max, hsp,
                   aviso, anterior>>
    /\ UNCHANGED genVars

\* What the four st.metric calls of a completed run showed.
Mostrado ==
    [inversores |-> Cardinality(inversores_seleccionados),
     energia |-> Val(energia_total_kwh),
     hsp |-> Val(hsp)]

\* A widget interaction: Streamlit runs the script again from the top.  The
\* script's variables start unassigned; the st.cache_data entry survives.
Rerun ==
    /\ pc \in {"fin", "stop", "excepcion"}
    /\ anterior' = IF pc = "fin" THEN Some(Mostrado) ELSE None
    /\ pc' = "cargar"
    /\ df' = <<>>
    /\ inversores_seleccionados' = {}
    /\ fechas_seleccionadas' = None
    /\ fecha_inicio' = None /\ fecha_fin' = None
    /\ df_filtrado' = None
    /\ energia_total_kwh' = None /\ potencia_pico_kw' = None
    /\ irradiancia_max' = None /\ hsp' = None
    /\ trazas' = None
    /\ aviso' = None
    /\ UNCHANGED <<csv, cache>>
    /\ UNCHANGED genVars

-----------------------------------------------------------------------------
(***************************************************************************)
(* src/app_v1.py: simular_datos_pv                                         *)
(*                                                                         *)
(* Irradiance is in tenths of W/m2 and power in 1/10000 kW.  The arrays    *)
(* are functions on 0..periods-1.  irradiancia_dia1 and irradiancia_dia3   *)
(* are other names of the array irradiancia_base; each potencia_dia* is an *)
(* array of its own (the product allocates it).                            *)
(***************************************************************************)

\* pd.date_range(start='2025-07-01', periods=72, freq='h'); np.arange(0, 72)
periods == 72
horas_dia == 0..(periods - 1)

\* np.sin(np.pi * h / 24) ** 2 * 1000 for h = 0..23, to the nearest unit.
Seno2Mil ==
    <<0, 17, 67, 146, 250, 371, 500, 629, 750, 854, 933, 983,
      1000, 983, 933, 854, 750, 629, 500, 371, 250, 146, 67, 17>>
ciclo_solar_base_mil(h) == Seno2Mil[(h % 24) + 1]

\* The k-th standard normal deviate numpy's global generator yields from the
\* state it had when simular_datos_pv was entered: a small counter-based
\* generator with outputs in -3..3.  np.random.normal(0, s, 72) is s times
\* 72 consecutive deviates.
Normal(estado, k) == (((estado + 7 * k) % 16) % 7) - 3

\* Faulty variant of Maximum0: no clamp.
SinMaximum(x) == x

\* np.maximum(0, x)
Maximum0(x) == IF x < 0 THEN 0 ELSE x

\* Line 13: np.maximum(0, ciclo_solar_base * 1000 + np.random.normal(0, 5, 72))
IrradianciaBase(estado) ==
    [h \in horas_dia |->
        Maximum0(10 * ciclo_solar_base_mil(h) + 50 * Normal(estado, h))]

\* Line 16: np.maximum(0, irradiancia_base * 0.4 + np.random.normal(0, 20, 72)),
\* the second batch of 72 deviates.
IrradianciaDia2(base, estado) ==
    [h \in horas_dia |->
        Maximum0((base[h] * 4) \div 10 + 200 * Normal(estado, periods + h))]

\* Lines 15, 17, 19: irradiancia * 0.15
Potencia(irradiancia) == [h \in horas_dia |-> irradiancia[h] * 150]

\* Lines 20-21: the two samples of potencia_dia3 that are scaled in place.
IndiceRecorte1 == 24 + 11
IndiceRecorte2 == 24 + 14
\* potencia_dia3[i] *= 0.3 and potencia_dia3[i] *= 0.4
\* Faulty variant of Recorte03: the factor of the second dip.
Recorte03Con04(p, i) == [p EXCEPT ![i] = (@ * 4) \div 10]

Recorte03(p, i) == [p EXCEPT ![i] = (@ * 3) \div 10]
Recorte04(p, i) == [p EXCEPT ![i] = (@ * 4) \div 10]

\* Lines 28-36: one long-format frame of 72 rows for a day label; Timestamp is
\* in hours since 2025-07-01 00:00.
DfDia(irradiancia, potencia, dia) ==
    [k \in 1..periods |->
        [Timestamp |-> k - 1,
         Irradiancia |-> irradiancia[k - 1],
         Potencia |-> potencia[k - 1],
         Dia |-> dia]]

\* The three day labels (written without the accent of the source).
Dia1 == "Dia 1 (Soleado)"
Dia2 == "Dia 2 (Nublado)"
Dia3 == "Dia 3 (Parcial)"

\* Lines 10-13
GenBase ==
    /\ gpc = "base"
    /\ irradiancia_base' = Some(IrradianciaBase(semilla))
    /\ gpc' = "dia1"
    /\ UNCHANGED <<semilla, irradiancia_dia2, potencia_dia1, potencia_dia2,
                   potencia_dia3, salida>>
    /\ UNCHANGED appVars

\* Lines 14-15
GenDia1 ==
    /\ gpc = "dia1"
    /\ potencia_dia1' = Some(Potencia(Val(irradiancia_base)))
    /\ gpc' = "dia2"
    /\ UNCHANGED <<semilla, irradiancia_base, irradiancia_dia2, potencia_dia2,
                   potencia_dia3, salida>>
    /\ UNCHANGED appVars

\* Lines 16-17
GenDia2 ==
    /\ gpc = "dia2"
    /\ irradiancia_dia2' = Some(IrradianciaDia2(Val(irradiancia_base), semilla))
    /\ potencia_dia2' = Some(Potencia(Val(irradiancia_dia2')))
    /\ gpc' = "dia3"
    /\ UNCHANGED <<semilla, irradiancia_base, potencia_dia1, potencia_dia3,
                   salida>>
    /\ UNCHANGED appVars

\* Lines 18-19
GenDia3 ==
    /\ gpc = "dia3"
    /\ potencia_dia3' = Some(Potencia(Val(irradiancia_base)))
    /\ gpc' = "recorte1"
    /\ UNCHANGED <<semilla, irradiancia_base, irradiancia_dia2, potencia_dia1,
                   potencia_dia2, salida>>
    /\ UNCHANGED appVars

\* Line 20
GenRecorte1 ==
    /\ gpc = "recorte1"
    /\ potencia_dia3' = Some(Recorte03(Val(potencia_dia3), IndiceRecorte1))
    /\ gpc' = "recorte2"
    /\ UNCHANGED <<semilla, irradiancia_base, irradiancia_dia2, potencia_dia1,
                   potencia_dia2, salida>>
    /\ UNCHANGED appVars

\* Line 21
GenRecorte2 ==
    /\ gpc = "recorte2"
    /\ potencia_dia3' = Some(Recorte04(Val(potencia_dia3), IndiceRecorte2))
    /\ gpc' = "frame"
    /\ UNCHANGED <<semilla, irradiancia_base, irradiancia_dia2, potencia_dia1,
                   potencia_dia2, salida>>
    /\ UNCHANGED appVars

\* Lines 22-37: the wide frame, the three per-day frames and pd.concat
GenFrame ==
    /\ gpc = "frame"
    /\ salida' = Some(DfDia(Val(irradiancia_base), Val(potencia_dia1), Dia1)
                      \o DfDia(Val(irradiancia_dia2), Val(potencia_dia2), Dia2)
                      \o DfDia(Val(irradiancia_base), Val(potencia_dia3), Dia3))
    /\ gpc' = "fin"
    /\ UNCHANGED <<semilla, irradiancia_base, irradiancia_dia2, potencia_dia1,
                   potencia_dia2, potencia_dia3>>
    /\ UNCHANGED appVars

\* The dashboard's variables while the generator runs.
AppIdle ==
    /\ csv = <<>>
    /\ cache = None
    /\ df = <<>>
    /\ Limpio
    /\ anterior = None
    /\ pc = "idle"

InitGen ==
    /\ semilla \in 0..MaxSemilla
    /\ irradiancia_base = None /\ irradiancia_dia2 = None
    /\ potencia_dia1 = None /\ potencia_dia2 = None /\ potencia_dia3 = None
    /\ salida = None
    /\ gpc = "base"
    /\ AppIdle

NextGen ==
    \/ GenBase
    \/ GenDia1
    \/ GenDia2
    \/ GenDia3
    \/ GenRecorte1
    \/ GenRecorte2
    \/ GenFrame

SpecGen == InitGen /\ [][NextGen]_vars

\* The generator's variables while the dashboard runs.
GenIdle ==
    /\ semilla = 0
    /\ irradiancia_base = None /\ irradiancia_dia2 = None
    /\ potencia_dia1 = None /\ potencia_dia2 = None /\ potencia_dia3 = None
    /\ salida = None
    /\ gpc = "idle"

Init ==
    /\ csv \in Archivos
    /\ cache = None
    /\ df = <<>>
    /\ Limpio
    /\ anterior = None
    /\ pc = "cargar"
    /\ GenIdle

Next ==
    \/ Cargar
    \/ Widgets
    \/ WidgetsSinFilas
    \/ Fechas
    \/ Filtrado
    \/ Vacio
    \/ Kpis
    \/ Grafico
    \/ Rerun

Spec == Init /\ [][Next]_vars

-----------------------------------------------------------------------------
(***************************************************************************)
(* Properties of simular_datos_pv (SpecGen)                                *)
(***************************************************************************)

\* The rows of the returned frame that carry a day label, in frame order;
\* sample k of the array (0-based) is element k + 1.
Serie(dia) == SelectSeq(Val(salida), LAMBDA r : r.Dia = dia)

\* irradiance x 0.15 of a row, in the unit of Potencia.
SinRecorte(r) == r.Irradiancia * 150

\* C1 as stated: in the 'Dia 3 (Parcial)' series the samples at index 11 and 14
\* hold the unclipped value (irradiance x 0.15) times 0.3 and times 0.4.
C1_RecorteEn11y14 ==
    gpc = "fin" =>
        /\ 10 * Serie(Dia3)[11 + 1].Potencia = 3 * SinRecorte(Serie(Dia3)[11 + 1])
        /\ 10 * Serie(Dia3)[14 + 1].Potencia = 4 * SinRecorte(Serie(Dia3)[14 + 1])

\* C1 as amended: in the 'Dia 3 (Parcial)' series the samples at index 24+11
\* and 24+14 of the 72 (11:00 and 14:00 of the second calendar day) hold the
\* unclipped value times 0.3 and times 0.4; every other sample of the series,
\* index 11 and 14 among them, holds the unclipped value.
C1_RecorteEn35y38 ==
    gpc = "fin" =>
        /\ Len(Serie(Dia3)) = 72
        /\ \A k \in 0..71 :
              LET r == Serie(Dia3)[k + 1]
              IN  /\ r.Timestamp = k
                  /\ k = 35 => r.Timestamp % 24 = 11 /\
                               10 * r.Potencia = 3 * SinRecorte(r)
                  /\ k = 38 => r.Timestamp % 24 = 14 /\
                               10 * r.Potencia = 4 * SinRecorte(r)
                  /\ k \notin {35, 38} => r.Potencia = SinRecorte(r)

\* C1's case: the frame is returned and both dips are visible, while the
\* samples at index 11 and 14 carry their full power.
C1_Witness ==
    /\ gpc = "fin"
    /\ Serie(Dia3)[35 + 1].Potencia > 0
    /\ Serie(Dia3)[35 + 1].Potencia < SinRecorte(Serie(Dia3)[35 + 1])
    /\ Serie(Dia3)[38 + 1].Potencia < SinRecorte(Serie(Dia3)[38 + 1])
    /\ Serie(Dia3)[11 + 1].Potencia = SinRecorte(Serie(Dia3)[11 + 1])
    /\ Serie(Dia3)[11 + 1].Potencia > 0

\* C8: the returned frame has exactly 216 rows (72 per day label) and
\* Irradiancia is >= 0 in every row, whatever the noise.
C8_Filas216IrradianciaNoNegativa ==
    gpc = "fin" =>
        /\ Len(Val(salida)) = 216
        /\ \A d \in {Dia1, Dia2, Dia3} : Len(Serie(d)) = 72
        /\ \A k \in 1..Len(Val(salida)) : Val(salida)[k].Irradiancia >= 0

\* C8's case: the frame is returned after a run in which the noise took the
\* raw value of line 13 and of line 16 below zero at some sample.
C8_Witness ==
    /\ gpc = "fin"
    /\ \E h \in horas_dia :
          10 * ciclo_solar_base_mil(h) + 50 * Normal(semilla, h) < 0
    /\ \E h \in horas_dia :
          (Val(irradiancia_base)[h] * 4) \div 10
              + 200 * Normal(semilla, periods + h) < 0
    /\ \E k \in 1..Len(Val(salida)) : Val(salida)[k].Irradiancia = 0

-----------------------------------------------------------------------------
(***************************************************************************)
(* Properties of the dashboard script (Spec)                               *)
(***************************************************************************)

\* No KPI of this run has been computed.
SinKpis ==
    /\ energia_total_kwh = None /\ potencia_pico_kw = None
    /\ irradiancia_max = None /\ hsp = None

\* C2: once the filtered table of a run is empty, no KPI is ever computed in
\* that run: the run is at the empty check or has stopped there, and when
\* stopped it shows the 'no data' warning, not the date error.
C2_VacioDetieneAntesDeKpis ==
    (df_filtrado # None /\ Val(df_filtrado) = <<>>) =>
        /\ pc \in {"vacio", "stop"}
        /\ pc = "stop" => aviso = Some(WarningSinDatos)
        /\ WarningSinDatos # ErrorFechas
        /\ SinKpis

\* C2's case: a table with rows, a complete date range and a selection that
\* matches none of the rows; the run has stopped with the warning.
C2_Witness ==
    /\ pc = "stop"
    /\ df # <<>>
    /\ df_filtrado = Some(<<>>)
    /\ inversores_seleccionados # {}
    /\ Val(fecha_inicio) <= Val(fecha_fin)
    /\ aviso = Some(WarningSinDatos)

\* A date selection with fewer than two dates, or with start after end.
Incompleto(fechas) == Len(fechas) < 2
Invertido(fechas) == Len(fechas) = 2 /\ fechas[1] > fechas[2]

\* C3: after the unpacking step, a run whose date selection is incomplete has
\* stopped with the date error, and a run whose selection has start > end is
\* filtering, at the empty check, or stopped with the 'no data' warning; in
\* both no KPI is computed and the run has not raised.
C3_RangoInvalidoDetiene ==
    (fechas_seleccionadas # None /\ pc # "fechas") =>
        /\ Incompleto(Val(fechas_seleccionadas)) =>
              /\ pc = "stop"
              /\ aviso = Some(ErrorFechas)
              /\ SinKpis
        /\ Invertido(Val(fechas_seleccionadas)) =>
              /\ pc \in {"filtrar", "vacio", "stop"}
              /\ pc = "stop" => aviso = Some(WarningSinDatos)
              /\ SinKpis

\* C3's case: the user picked a single date over a table with rows and the
\* run stopped with the date error.
C3_Witness ==
    /\ pc = "stop"
    /\ df # <<>>
    /\ fechas_seleccionadas # None
    /\ Len(Val(fechas_seleccionadas)) = 1
    /\ aviso = Some(ErrorFechas)
    /\ SinKpis

\* C3's other case, start after end: the run stopped with the warning.
C3_WitnessInvertido ==
    /\ pc = "stop"
    /\ fechas_seleccionadas # None
    /\ Invertido(Val(fechas_seleccionadas))
    /\ inversores_seleccionados # {}
    /\ aviso = Some(WarningSinDatos)

\* A trace is ordered by timestamp.
Ordenada(traza) ==
    \A i, j \in 1..Len(traza) : i < j => traza[i][1] <= traza[j][1]

\* C4 as stated: whatever the row order of the file, every per-inverter trace
\* handed to the chart is ordered by timestamp.
C4_TrazasOrdenadas ==
    pc = "fin" =>
        \A inversor \in DOMAIN Val(trazas) : Ordenada(Val(trazas)[inversor])

\* The rows of the file of one inverter whose Timestamp cell is a date.
FilasValidasDe(inversor) ==
    SelectSeq(csv, LAMBDA r : r.Nombre_Inversor = inversor
                              /\ r.Timestamp # "2loc 08:45:00")

\* The rows of one inverter appear in the file in timestamp order.
ArchivoOrdenadoPara(inversor) ==
    LET f == FilasValidasDe(inversor)
    IN  \A i, j \in 1..Len(f) :
            i < j => ToDatetime(f[i].Timestamp) <= ToDatetime(f[j].Timestamp)

\* C4 as amended: there is one trace per inverter of the filtered table; it
\* holds the (timestamp, power) pairs of that inverter's filtered rows in the
\* row order of the file, and so it is ordered by timestamp whenever that
\* inverter's rows are in timestamp order in the file.
C4_TrazasEnOrdenDeArchivo ==
    pc = "fin" =>
        /\ DOMAIN Val(trazas) =
              {r.Nombre_Inversor : r \in {Val(df_filtrado)[i] :
                                            i \in 1..Len(Val(df_filtrado))}}
        /\ \A inversor \in DOMAIN Val(trazas) :
              LET f == SelectSeq(FilasValidasDe(inversor), LAMBDA r :
                          /\ inversor \in inversores_seleccionados
                          /\ Date(ToDatetime(r.Timestamp)) >= Val(fecha_inicio)
                          /\ Date(ToDatetime(r.Timestamp)) <= Val(fecha_fin))
                  t == Val(trazas)[inversor]
              IN  /\ Len(t) = Len(f)
                  /\ \A i \in 1..Len(t) :
                        t[i] = <<ToDatetime(f[i].Timestamp), f[i].Potencia_AC_kW>>
                  /\ ArchivoOrdenadoPara(inversor) => Ordenada(t)

\* C4's case: two inverters are charted, each with rows in timestamp order in
\* the file, while the file as a whole is not in timestamp order.
C4_Witness ==
    /\ pc = "fin"
    /\ Cardinality(DOMAIN Val(trazas)) = 2
    /\ \A inversor \in Inversores : ArchivoOrdenadoPara(inversor)
    /\ ~Ordenada(Scatter(Val(df_filtrado)))

\* C5: the cleaned table has exactly as many rows as the file has rows with
\* a valid Timestamp, and these are the valid rows in file order with their
\* other fields unchanged; no row with a malformed Timestamp is in it.
C5_LimpiezaConservaValidas ==
    cache # None =>
        LET out == Val(cache)
            malas == {i \in 1..Len(csv) : csv[i].Timestamp = "2loc 08:45:00"}
            validas == SelectSeq(csv, LAMBDA r : r.Timestamp # "2loc 08:45:00")
        IN  /\ Len(out) = Len(csv) - Cardinality(malas)
            /\ Len(out) = Len(validas)
            /\ \A i \in 1..Len(out) :
                  /\ out[i].Timestamp # NaT
                  /\ out[i].Timestamp = ToDatetime(validas[i].Timestamp)
                  /\ out[i].Nombre_Inversor = validas[i].Nombre_Inversor
                  /\ out[i].Potencia_AC_kW = validas[i].Potencia_AC_kW
                  /\ out[i].Irradiancia_GHI_W_m2 = validas[i].Irradiancia_GHI_W_m2

\* C5's case: a file with a valid and a malformed row has been cleaned to the
\* one valid row.
C5_Witness ==
    /\ cache # None
    /\ Len(csv) = 2
    /\ Len(Val(cache)) = 1
    /\ \E i \in 1..2 : csv[i].Timestamp = "2loc 08:45:00"

\* Equality of two fractions.
FracEq(a, b) == a.num * b.den = b.num * a.den

\* C6: the hsp shown is total energy / (50 x number of selected inverters),
\* so between two runs that show the same total energy it scales inversely
\* with the number of selected inverters: with 2 inverters after 1 it is half.
C6_HspInversoAlNumero ==
    pc = "fin" =>
        LET n == Cardinality(inversores_seleccionados)
            h == Val(hsp)
        IN  /\ FracEq(h, [num |-> Val(energia_total_kwh), den |-> 100 * 50 * n])
            /\ (anterior # None
                /\ Val(anterior).energia = Val(energia_total_kwh)) =>
                  LET a == Val(anterior)
                  IN  /\ FracEq([num |-> h.num * n, den |-> h.den],
                                [num |-> a.hsp.num * a.inversores,
                                 den |-> a.hsp.den])
                      /\ (a.inversores = 1 /\ n = 2) =>
                            FracEq([num |-> 2 * h.num, den |-> h.den], a.hsp)

\* C6's case: a run with one inverter selected is followed by a run with two
\* selected that shows the same, non-zero, total energy.
C6_Witness ==
    /\ pc = "fin"
    /\ anterior # None
    /\ Val(anterior).inversores = 1
    /\ Cardinality(inversores_seleccionados) = 2
    /\ Val(anterior).energia = Val(energia_total_kwh)
    /\ Val(energia_total_kwh) > 0

\* C7: filtering the filtered table again with the same criteria returns the
\* filtered table.
C7_FiltroIdempotente ==
    df_filtrado # None =>
        Filtrar(Val(df_filtrado), inversores_seleccionados,
                Val(fecha_inicio), Val(fecha_fin)) = Val(df_filtrado)

\* C7's case: a filter that keeps some rows of the table and drops others.
C7_Witness ==
    /\ df_filtrado # None
    /\ Val(df_filtrado) # <<>>
    /\ Len(Val(df_filtrado)) < Len(df)

RECURSIVE PotenciaQueCoincide(_)
\* The sum of Potencia_AC_kW over the rows of a file that have a valid
\* Timestamp and match the current widget values.
PotenciaQueCoincide(archivo) ==
    IF archivo = <<>> THEN 0
    ELSE LET r == Head(archivo)
             si == /\ r.Timestamp # "2loc 08:45:00"
                   /\ r.Nombre_Inversor \in inversores_seleccionados
                   /\ Date(ToDatetime(r.Timestamp)) >= Val(fecha_inicio)
                   /\ Date(ToDatetime(r.Timestamp)) <= Val(fecha_fin)
         IN  (IF si THEN r.Potencia_AC_kW ELSE 0)
             + PotenciaQueCoincide(Tail(archivo))

\* C9: in every run, the first or one after any number of filter changes, the
\* total energy shown is 0.25 x the sum of power over exactly the rows that
\* match the current criteria, and the cached cleaned table is the one the
\* first run stored: the cleaning of the file.
C9_EnergiaDelFiltroActual ==
    /\ cache # None => cache = Some(cargar_datos(csv))
    /\ pc \notin {"cargar", "idle"} => df = Val(cache)
    /\ energia_total_kwh # None =>
          Val(energia_total_kwh) = 25 * PotenciaQueCoincide(csv)

\* C9's case: a run after a filter change shows a total energy other than
\* the one the run before showed.
C9_Witness ==
    /\ pc = "fin"
    /\ anterior # None
    /\ Val(anterior).energia # Val(energia_total_kwh)
    /\ Val(energia_total_kwh) = 25 * (10 + 20)

\* C10: when the run is at the KPI section, and after it, the denominator
\* 50 x len(inversores_seleccionados) of hsp is strictly positive; a run with
\* no inverter selected never gets past the empty check.
C10_DenominadorPositivo ==
    /\ pc \in {"kpis", "grafico", "fin"} =>
          50 * Cardinality(inversores_seleccionados) > 0
    /\ hsp # None => Val(hsp).den > 0
    /\ (inversores_seleccionados = {} /\ df_filtrado # None) =>
          pc \in {"vacio", "stop"}

\* C10's case: the run is about to compute the KPIs, with one inverter
\* selected out of two.
C10_Witness ==
    /\ pc = "kpis"
    /\ Cardinality(lista_inversores) = 2
    /\ PotenciaPicoSistema(inversores_seleccionados) = 50
====
